---- MODULE Spec2Model ----
(***************************************************************************)
(* A model of repo-doc: the repository locator (ParseRepoURL), the three   *)
(* commands (info, pr-thread, health), the text normalizer, the sentiment  *)
(* classifier boundary, the bot filter and the health aggregator.          *)
(*                                                                         *)
(* Strings are sequences of one-character strings, so that the string      *)
(* functions of the source (Contains, TrimPrefix, Split, the regular       *)
(* expressions) are computed character by character.                       *)
(* Scores (float64 in [0,1]) are integers in tenths: 9 is 0.9.             *)
(***************************************************************************)
EXTENDS Integers, Sequences, FiniteSets, TLC

VARIABLES
    command,          \* the sub-command being run: "info", "pr-thread", "health"
    args,             \* args[0], the repository reference
    env,              \* the environment: GEMINI_API_KEY, GITHUB_TOKEN
    token,            \* cmd.token (--token)
    format,           \* cmd.format (--format)
    prs,              \* cmd.prs (--prs)
    prsChanged,       \* cmd.Flags().Changed("prs")
    limitArg,         \* the --limit value the command line gave to pr-thread or health
    healthLimit,      \* cmd.healthLimit (--limit of health)
    discussionsLimit, \* cmd.discussionsLimit (--limit of pr-thread)
    pc,               \* the position of the run
    fatal,            \* the log.Fatal message the run ended with, or "none"
    parsed,           \* the result of ParseRepoURL
    client,           \* TRUE once createGitHubClient has run
    netLog,           \* the network calls issued so far, in order
    stdout,           \* what has been written to standard output, in order
    prInfos,          \* the result of FetchPullRequests
    discussions,      \* []*PRDiscussion
    remote,           \* the pull requests GitHub holds for the repository
    repoInfo,         \* the result of FetchRepoInfo
    report,           \* *HealthReport
    totalScore,       \* analyzePRHealth's running sum of scores (tenths)
    di,               \* analyzePRHealth: index of the discussion being read
    mi,               \* analyzePRHealth: index of the message being read
    geminiCalls,      \* number of GenerateContent calls issued
    text,             \* the text handed to analyzeSentiment
    sentiment         \* the result of analyzeSentiment

vars == <<command, args, env, token, format, prs, prsChanged, limitArg, healthLimit,
          discussionsLimit, pc, fatal, parsed, client, netLog, stdout, prInfos,
          discussions, remote, repoInfo, report, totalScore, di, mi, geminiCalls,
          text, sentiment>>

flagVars == <<command, args, env, token, format, prs, prsChanged, limitArg>>
limitVars == <<healthLimit, discussionsLimit>>
fetchVars == <<client, netLog, prInfos, discussions>>
healthVars == <<report, totalScore, di, mi, geminiCalls>>
classifyVars == <<text, sentiment>>

(***************************************************************************)
(* Strings                                                                 *)
(***************************************************************************)
EmptyStr == << >>

\* s[from..] (1-based), the Go slice s[from-1:]
Drop(s, n) == SubSeq(s, n + 1, Len(s))

\* strings.HasPrefix
HasPrefix(s, p) == Len(p) <= Len(s) /\ SubSeq(s, 1, Len(p)) = p

\* strings.HasSuffix
HasSuffix(s, p) == Len(p) <= Len(s) /\ SubSeq(s, Len(s) - Len(p) + 1, Len(s)) = p

\* strings.Contains
Contains(s, sub) ==
    \E i \in 0..(Len(s) - Len(sub)) : SubSeq(s, i + 1, i + Len(sub)) = sub

\* strings.TrimPrefix
TrimPrefix(s, p) == IF HasPrefix(s, p) THEN Drop(s, Len(p)) ELSE s

\* strings.Split(s, sep) for a one-character separator: always at least one part
RECURSIVE SplitFrom(_, _, _)
SplitFrom(s, sep, cur) ==
    IF s = EmptyStr THEN <<cur>>
    ELSE IF Head(s) = sep THEN <<cur>> \o SplitFrom(Tail(s), sep, EmptyStr)
    ELSE SplitFrom(Tail(s), sep, Append(cur, Head(s)))

Split(s, sep) == SplitFrom(s, sep, EmptyStr)

\* concatenation of a sequence of strings
RECURSIVE Concat(_)
Concat(ss) == IF ss = << >> THEN EmptyStr ELSE Head(ss) \o Concat(Tail(ss))

\* all sequences over S of length at most n
SeqsUpTo(S, n) == UNION { [1..m -> S] : m \in 0..n }

S_slash == <<"/">>
S_https == <<"h", "t", "t", "p", "s", ":", "/", "/">>
S_http == <<"h", "t", "t", "p", ":", "/", "/">>
S_github == <<"g", "i", "t", "h", "u", "b", ".", "c", "o", "m">>
S_githubSlash == S_github \o S_slash

(***************************************************************************)
(* internal/analyzer: ParseRepoURL                                         *)
(***************************************************************************)
ParseOK(o, r) == [owner |-> o, repo |-> r, err |-> FALSE]
ParseErr == [owner |-> EmptyStr, repo |-> EmptyStr, err |-> TRUE]

\* the short form is taken when the reference does not mention github.com
IsShortForm(url) == ~Contains(url, S_github) /\ Contains(url, S_slash)

\* the TrimPrefix calls without that of "http://"
StripURL_NoHttp(url) == TrimPrefix(TrimPrefix(url, S_https), S_githubSlash)

\* the three TrimPrefix calls, in order
StripURL(url) == TrimPrefix(TrimPrefix(TrimPrefix(url, S_https), S_http), S_githubSlash)

ParseRepoURL(url) ==
    LET short == Split(url, "/")
        parts == Split(StripURL(url), "/")
    IN  IF IsShortForm(url) /\ Len(short) = 2
        THEN ParseOK(short[1], short[2])
        ELSE IF Len(parts) < 2 THEN ParseErr
        ELSE ParseOK(parts[1], parts[2])

(***************************************************************************)
(* cmd/health.go: the text normalizer (cleanTextForAnalysis)               *)
(***************************************************************************)
S_space == <<" ">>
\* the backquote character (a TLA+ string cannot hold it): the one character of
\* the model that is not written as itself
BQ == "bq"

S_fence == <<BQ, BQ, BQ>>
S_httpScheme == <<"h", "t", "t", "p">>
S_colonSlashes == <<":", "/", "/">>

\* \s of the regular expressions and the separators of strings.Fields
Whitespace == {" ", "\t", "\n", "\r", "\f"}

\* the class [#*\-_=~]
MarkdownPunct == {"#", "*", "-", "_", "=", "~"}

\* least i >= from with sub at s[i..], or 0
IndexFrom(s, sub, from) ==
    LET hits == { i \in from..(Len(s) - Len(sub) + 1) : SubSeq(s, i, i + Len(sub) - 1) = sub }
    IN  IF hits = {} THEN 0 ELSE CHOOSE i \in hits : \A j \in hits : i <= j

\* length of the longest prefix of s whose characters are all in (or all out of) C
RECURSIVE RunLen(_, _, _)
RunLen(s, C, inside) ==
    IF s = EmptyStr \/ ((Head(s) \in C) # inside) THEN 0
    ELSE 1 + RunLen(Tail(s), C, inside)

\* ReplaceAllString of (?s)```.*?``` by " "
RECURSIVE RemoveCodeBlocks(_)
RemoveCodeBlocks(s) ==
    IF s = EmptyStr THEN EmptyStr
    ELSE LET close == IF HasPrefix(s, S_fence) THEN IndexFrom(s, S_fence, 4) ELSE 0
         IN  IF close > 0
             THEN S_space \o RemoveCodeBlocks(Drop(s, close + 2))
             ELSE <<Head(s)>> \o RemoveCodeBlocks(Tail(s))

\* ReplaceAllString of `[^`]+` by " "
RECURSIVE RemoveInlineCode(_)
RemoveInlineCode(s) ==
    IF s = EmptyStr THEN EmptyStr
    ELSE LET close == IF Head(s) = BQ THEN IndexFrom(s, <<BQ>>, 2) ELSE 0
         IN  IF close > 2
             THEN S_space \o RemoveInlineCode(Drop(s, close))
             ELSE <<Head(s)>> \o RemoveInlineCode(Tail(s))

\* length of the match of https?://\S+ at the start of s, or 0
URLMatchLen(s) ==
    LET scheme == IF HasPrefix(s, S_httpScheme \o <<"s">> \o S_colonSlashes) THEN 8
                  ELSE IF HasPrefix(s, S_httpScheme \o S_colonSlashes) THEN 7
                  ELSE 0
        rest == RunLen(Drop(s, scheme), Whitespace, FALSE)
    IN  IF scheme > 0 /\ rest > 0 THEN scheme + rest ELSE 0

\* ReplaceAllString of https?://\S+ by " "
RECURSIVE RemoveURLs(_)
RemoveURLs(s) ==
    IF s = EmptyStr THEN EmptyStr
    ELSE LET n == URLMatchLen(s)
         IN  IF n > 0
             THEN S_space \o RemoveURLs(Drop(s, n))
             ELSE <<Head(s)>> \o RemoveURLs(Tail(s))

\* ReplaceAllString of [#*\-_=~]+ by " "
RECURSIVE RemoveMarkdown(_)
RemoveMarkdown(s) ==
    IF s = EmptyStr THEN EmptyStr
    ELSE LET n == RunLen(s, MarkdownPunct, TRUE)
         IN  IF n > 0
             THEN S_space \o RemoveMarkdown(Drop(s, n))
             ELSE <<Head(s)>> \o RemoveMarkdown(Tail(s))

\* strings.Fields: the maximal runs of non-whitespace characters
RECURSIVE Fields(_)
Fields(s) ==
    IF s = EmptyStr THEN << >>
    ELSE IF Head(s) \in Whitespace THEN Fields(Tail(s))
    ELSE LET n == RunLen(s, Whitespace, FALSE)
         IN  <<SubSeq(s, 1, n)>> \o Fields(Drop(s, n))

\* strings.Join(ss, " ")
RECURSIVE JoinSpace(_)
JoinSpace(ss) ==
    IF ss = << >> THEN EmptyStr
    ELSE IF Len(ss) = 1 THEN Head(ss)
    ELSE Head(ss) \o S_space \o JoinSpace(Tail(ss))

cleanTextForAnalysis(s) ==
    JoinSpace(Fields(RemoveMarkdown(RemoveURLs(RemoveInlineCode(RemoveCodeBlocks(s))))))

(***************************************************************************)
(* cmd/health.go: the bot filter (isBotComment)                            *)
(***************************************************************************)
UpperCase == <<"A", "B", "C", "D", "E", "F", "G", "H", "I", "J", "K", "L", "M",
               "N", "O", "P", "Q", "R", "S", "T", "U", "V", "W", "X", "Y", "Z">>
LowerCase == <<"a", "b", "c", "d", "e", "f", "g", "h", "i", "j", "k", "l", "m",
               "n", "o", "p", "q", "r", "s", "t", "u", "v", "w", "x", "y", "z">>

LowerChar(c) ==
    IF \E i \in DOMAIN UpperCase : UpperCase[i] = c
    THEN LowerCase[CHOOSE i \in DOMAIN UpperCase : UpperCase[i] = c]
    ELSE c

\* strings.ToLower
ToLower(s) == [i \in DOMAIN s |-> LowerChar(s[i])]

botNames ==
    << <<"d", "e", "p", "e", "n", "d", "a", "b", "o", "t">>,
       <<"g", "i", "t", "h", "u", "b", "-", "a", "c", "t", "i", "o", "n", "s">>,
       <<"g", "i", "t", "h", "u", "b", "[", "b", "o", "t", "]">>,
       <<"a", "c", "t", "i", "o", "n", "s", "-", "u", "s", "e", "r">>,
       <<"a", "c", "t", "i", "o", "n", "s", "\\", "[", "b", "o", "t", "\\", "]">>,
       <<"t", "r", "a", "v", "i", "s">>,
       <<"c", "i", "r", "c", "l", "e", "c", "i">>,
       <<"j", "e", "n", "k", "i", "n", "s">>,
       <<"g", "i", "t", "l", "a", "b", "-", "c", "i">>,
       <<"a", "z", "u", "r", "e", "-", "p", "i", "p", "e", "l", "i", "n", "e", "s">>,
       <<"c", "i", "r", "c", "l", "e", "c", "i", "[", "b", "o", "t", "]">>,
       <<"c", "o", "d", "e", "c", "o", "v">>,
       <<"c", "o", "d", "e", "c", "l", "i", "m", "a", "t", "e">>,
       <<"s", "o", "n", "a", "r", "c", "l", "o", "u", "d">>,
       <<"s", "n", "y", "k", "-", "b", "o", "t">>,
       <<"d", "e", "p", "e", "n", "d", "a", "b", "o", "t", "-", "p", "r", "e", "v", "i", "e", "w">>,
       <<"b", "o", "t">>,
       <<"c", "i">>,
       <<"c", "d">>,
       <<"d", "e", "p", "l", "o", "y">>,
       <<"t", "e", "s", "t">>,
       <<"a", "u", "t", "o", "m", "a", "t", "i", "o", "n">>,
       <<"b", "o", "r", "s", "-">>,
       <<"t", "l", "d", "r", "-">>,
       <<"a", "w", "s", "-">>,
       <<"g", "c", "p", "-">>,
       <<"a", "z", "u", "r", "e", "-">>,
       <<"g", "o", "o", "g", "l", "e", "-", "c", "l", "o", "u", "d">>,
       <<"a", "w", "s", "-", "s", "d", "k">>,
       <<"r", "e", "n", "o", "v", "a", "t", "e">>,
       <<"g", "r", "e", "e", "n", "k", "e", "e", "p", "e", "r">>,
       <<"h", "o", "u", "n", "d">>,
       <<"s", "t", "a", "l", "e">>,
       <<"m", "e", "r", "g", "i", "f", "y">>,
       <<"a", "l", "l", "c", "o", "n", "t", "r", "i", "b", "u", "t", "o", "r", "s">>,
       <<"c", "o", "d", "e", "-", "r", "a", "b", "b", "i", "t">>,
       <<"a", "p", "p", "/">>,
       <<"a", "p", "p", "\\", "/">> >>

botSuffixes ==
    << <<"[", "b", "o", "t", "]">>, <<"-", "b", "o", "t">>, <<"-", "c", "i">>,
       <<"-", "d", "e", "p", "l", "o", "y">> >>

isBotComment(author) ==
    LET a == ToLower(author)
    IN  \/ \E i \in DOMAIN botNames : Contains(a, botNames[i])
        \/ \E i \in DOMAIN botSuffixes : HasSuffix(a, botSuffixes[i])

(***************************************************************************)
(* cmd/health.go: the sentiment classifier boundary                        *)
(*                                                                         *)
(* A response text of the model is a sequence of tokens: the two braces,   *)
(* other text, and the members "sentiment": s, "score": v of an object.    *)
(***************************************************************************)
LBrace == [tok |-> "{", sentiment |-> "", score |-> 0]
RBrace == [tok |-> "}", sentiment |-> "", score |-> 0]
OtherText == [tok |-> "text", sentiment |-> "", score |-> 0]
Members(s, v) == [tok |-> "members", sentiment |-> s, score |-> v]

\* what a call of analyzeWithGemini yields
Reply(s, v, called) == [sentiment |-> s, score |-> v, err |-> FALSE, called |-> called, panic |-> FALSE]
ReplyErr(called) == [sentiment |-> "", score |-> 0, err |-> TRUE, called |-> called, panic |-> FALSE]
ReplyPanic == [sentiment |-> "", score |-> 0, err |-> FALSE, called |-> TRUE, panic |-> TRUE]

\* strings.Index(responseText, "{") + 1: 0 when there is none
IndexOfTok(t, tok) ==
    IF \E i \in DOMAIN t : t[i] = tok
    THEN CHOOSE i \in DOMAIN t : t[i] = tok /\ \A j \in DOMAIN t : t[j] = tok => i <= j
    ELSE 0

\* strings.LastIndex(responseText, "}") + 1: 0 when there is none
LastIndexOfTok(t, tok) ==
    IF \E i \in DOMAIN t : t[i] = tok
    THEN CHOOSE i \in DOMAIN t : t[i] = tok /\ \A j \in DOMAIN t : t[j] = tok => j <= i
    ELSE 0

\* json.Unmarshal into {Sentiment, Score}: an object with the two members, or the
\* empty object (both fields keep their zero values); anything else is an error
Unmarshal(js) ==
    IF js = <<LBrace, RBrace>> THEN [ok |-> TRUE, Sentiment |-> "", Score |-> 0]
    ELSE IF Len(js) = 3 /\ js[1] = LBrace /\ js[2].tok = "members" /\ js[3] = RBrace
    THEN [ok |-> TRUE, Sentiment |-> js[2].sentiment, Score |-> js[2].score]
    ELSE [ok |-> FALSE, Sentiment |-> "", Score |-> 0]

ValidSentiments == {"positive", "neutral", "negative"}

\* the check of result.Score: outside [0, 1]
ScoreOutOfRange(v) == v < 0 \/ v > 10

\* responseText[jsonStart : jsonEnd+1] panics when jsonStart > jsonEnd+1
SliceOutOfRange(jsonStart, jsonEnd) == jsonStart > jsonEnd + 1

\* analyzeWithGemini from the extraction of the JSON object on
ParseResponseText(t) ==
    LET jsonStart == IndexOfTok(t, LBrace)
        jsonEnd == LastIndexOfTok(t, RBrace)
        result == Unmarshal(SubSeq(t, jsonStart, jsonEnd))
    IN  IF jsonStart = 0 \/ jsonEnd = 0 THEN ReplyErr(TRUE)
        ELSE IF SliceOutOfRange(jsonStart, jsonEnd) THEN ReplyPanic
        ELSE IF ~result.ok THEN ReplyErr(TRUE)
        ELSE IF result.Sentiment \notin ValidSentiments THEN ReplyErr(TRUE)
        ELSE IF ScoreOutOfRange(result.Score) THEN ReplyErr(TRUE)
        ELSE Reply(result.Sentiment, result.Score, TRUE)

\* analyzeWithGemini from genai.NewClient on, for what the service does:
\*   "clienterr"  genai.NewClient fails
\*   "callerr"    GenerateContent fails or the deadline passes
\*   "nocontent"  no candidate, or a candidate without parts
\*   "text"       a response text
HandleResponse(resp) ==
    IF resp.kind = "clienterr" THEN ReplyErr(FALSE)
    ELSE IF resp.kind = "callerr" THEN ReplyErr(TRUE)
    ELSE IF resp.kind = "nocontent" THEN ReplyErr(TRUE)
    ELSE ParseResponseText(resp.text)

\* analyzeWithGemini without the early return
CleanIsEmpty_Never(cleanText) == FALSE

\* the early return of analyzeWithGemini for text that cleans to nothing
CleanIsEmpty(cleanText) == cleanText = EmptyStr

\* reply: HandleResponse of the service's response, used when the call is reached
analyzeWithGemini(txt, apiKey, reply) ==
    IF CleanIsEmpty(cleanTextForAnalysis(txt)) THEN Reply("neutral", 5, FALSE)
    ELSE IF apiKey = "" THEN ReplyErr(FALSE)
    ELSE reply

analyzeSentiment(txt, apiKey, reply) ==
    IF txt = EmptyStr THEN Reply("neutral", 5, FALSE)
    ELSE LET r == analyzeWithGemini(txt, apiKey, reply)
         IN  IF r.panic THEN r
             ELSE IF r.err THEN Reply("neutral", 5, r.called)
             ELSE Reply(r.sentiment, r.score, r.called)

(***************************************************************************)
(* cmd/health.go: the health aggregator (analyzePRHealth)                  *)
(***************************************************************************)
Ratio(n, d) == [num |-> n, den |-> d]

NewReport(n) ==
    [PRCount |-> n, MessageCount |-> 0, PositiveScore |-> 0, NegativeScore |-> 0,
     NeutralScore |-> 0, AverageSentiment |-> Ratio(0, 1), Messages |-> << >>]

\* the continue of the inner loop without the bot filter
SkipMessage_BodyOnly(msg) == msg.Body = EmptyStr

\* the continue of the inner loop
SkipMessage(msg) == msg.Body = EmptyStr \/ isBotComment(msg.Author)

\* the label derived from the score when the classifier gave none
LabelFor(label, score) ==
    IF label # "" THEN label
    ELSE IF score > 7 THEN "positive"
    ELSE IF score < 4 THEN "negative"
    ELSE "neutral"

\* the append and a switch on sentimentLabel without the case "negative"
RecordMessage_NegativeAsNeutral(rep, body, label, score) ==
    [rep EXCEPT !.Messages = Append(@, [Content |-> body, Sentiment |-> label, Score |-> score]),
                !.PositiveScore = IF label = "positive" THEN @ + 1 ELSE @,
                !.NeutralScore = IF label # "positive" THEN @ + 1 ELSE @]

\* the append and the switch on sentimentLabel
RecordMessage(rep, body, label, score) ==
    [rep EXCEPT !.Messages = Append(@, [Content |-> body, Sentiment |-> label, Score |-> score]),
                !.PositiveScore = IF label = "positive" THEN @ + 1 ELSE @,
                !.NegativeScore = IF label = "negative" THEN @ + 1 ELSE @,
                !.NeutralScore = IF label \notin {"positive", "negative"} THEN @ + 1 ELSE @]

\* the guard of the average
HasMessages(n) == n > 0

\* the statements after the loops; the scores are tenths, the average is not
FinishReport(rep, total) ==
    LET n == Len(rep.Messages)
    IN  [rep EXCEPT !.MessageCount = n,
                    !.AverageSentiment = IF HasMessages(n) THEN Ratio(total, 10 * n) ELSE @]

\* the first message at or after (d, m) in iteration order; d = Len(ds) + 1 at the end
RECURSIVE NextMessage(_, _, _)
NextMessage(ds, d, m) ==
    IF d > Len(ds) THEN <<d, 1>>
    ELSE IF m > Len(ds[d].Messages) THEN NextMessage(ds, d + 1, 1)
    ELSE <<d, m>>

(***************************************************************************)
(* cmd/health.go: displayHealthReport                                      *)
(***************************************************************************)
SampleMax == 3
ContentMax == 100
ContentCut == 97

\* n/d rounded to an integer, ties to even: the digits %.1f prints of 10*n/d
RoundDiv(n, d) ==
    LET q == n \div d
        r == n % d
    IN  IF 2 * r > d \/ (2 * r = d /\ q % 2 = 1) THEN q + 1 ELSE q

\* a/b > c/d for positive b and d
Greater(a, b, c, d) == a * d > c * b

\* displayHealthReport without its early return
NoMessages_Never(rep) == FALSE

\* the early return of displayHealthReport
NoMessages(rep) == rep.MessageCount = 0

\* the switch with the cases of the positive and the negative fraction exchanged
Verdict_PositiveFirst(rep) ==
    IF rep.MessageCount = 0 THEN "No messages to analyze"
    ELSE IF Greater(rep.PositiveScore, rep.MessageCount, 7, 10) THEN "Excellent health"
    ELSE IF Greater(rep.NegativeScore, rep.MessageCount, 5, 10) THEN "Needs attention"
    ELSE IF Greater(rep.AverageSentiment.num, rep.AverageSentiment.den, 6, 10) THEN "Good health"
    ELSE IF Greater(rep.NeutralScore, rep.MessageCount, 7, 10) THEN "Neutral"
    ELSE "Mixed sentiment"

\* the switch of the health assessment: the first case that holds
Verdict(rep) ==
    IF rep.MessageCount = 0 THEN "No messages to analyze"
    ELSE IF Greater(rep.NegativeScore, rep.MessageCount, 5, 10) THEN "Needs attention"
    ELSE IF Greater(rep.PositiveScore, rep.MessageCount, 7, 10) THEN "Excellent health"
    ELSE IF Greater(rep.AverageSentiment.num, rep.AverageSentiment.den, 6, 10) THEN "Good health"
    ELSE IF Greater(rep.NeutralScore, rep.MessageCount, 7, 10) THEN "Neutral"
    ELSE "Mixed sentiment"

Emoji(label) ==
    IF label = "positive" THEN "check" ELSE IF label = "negative" THEN "cross" ELSE "dash"

Truncate(content) ==
    IF Len(content) > ContentMax THEN SubSeq(content, 1, ContentCut) \o <<".", ".", ".">>
    ELSE content

SampleLines(msgs) ==
    [i \in 1..(IF Len(msgs) < SampleMax THEN Len(msgs) ELSE SampleMax) |->
        [kind |-> "sample", emoji |-> Emoji(msgs[i].Sentiment), score |-> msgs[i].Score,
         content |-> Truncate(msgs[i].Content)]]

\* a percentage as printed by %.1f, in tenths of a percent; 0.0 without messages
Percent(count, total) == IF total > 0 THEN RoundDiv(1000 * count, total) ELSE 0

\* the lines written to standard output, in order
displayHealthReport(rep) ==
    IF NoMessages(rep)
    THEN << [kind |-> "notice", what |-> "No messages found to analyze"] >>
    ELSE << [kind |-> "header", PRCount |-> rep.PRCount, MessageCount |-> rep.MessageCount],
            [kind |-> "percent", label |-> "Positive", tenths |-> Percent(rep.PositiveScore, rep.MessageCount)],
            [kind |-> "percent", label |-> "Neutral", tenths |-> Percent(rep.NeutralScore, rep.MessageCount)],
            [kind |-> "percent", label |-> "Negative", tenths |-> Percent(rep.NegativeScore, rep.MessageCount)],
            [kind |-> "average", tenths |-> RoundDiv(10 * rep.AverageSentiment.num, rep.AverageSentiment.den)] >>
         \o SampleLines(rep.Messages)
         \o << [kind |-> "verdict", what |-> Verdict(rep)] >>

(***************************************************************************)
(* The GitHub side: what the REST API holds for the repository of the run. *)
(* A nil login or body is the empty string (the source reads both alike);  *)
(* a creation time is a number, later times being larger.                  *)
(***************************************************************************)
S_alice == <<"a", "l", "i", "c", "e">>
S_dependabot == <<"d", "e", "p", "e", "n", "d", "a", "b", "o", "t", "[", "b", "o", "t", "]">>
S_runner == <<"C", "I", "-", "R", "u", "n", "n", "e", "r">>
S_ok == <<"o", "k">>
S_thanks == <<"t", "h", "a", "n", "k", "s">>

Comment(login, body, at) == [login |-> login, body |-> body, createdAt |-> at]

PullRequest(n, login, state, mergedAt, body, at, cs, rcs) ==
    [number |-> n, login |-> login, state |-> state, mergedAt |-> mergedAt, body |-> body,
     createdAt |-> at, comments |-> cs, reviewComments |-> rcs]

SamplePR7 ==
    PullRequest(7, S_alice, "open", FALSE, S_ok, 1,
                << Comment(S_dependabot, S_ok, 2), Comment(S_alice, S_thanks, 5) >>,
                << Comment(S_alice, S_ok, 4) >>)

SamplePR8 ==
    PullRequest(8, S_dependabot, "closed", TRUE, EmptyStr, 3,
                << Comment(S_alice, EmptyStr, 4) >>,
                << Comment(EmptyStr, S_ok, 6) >>)

SamplePR9 ==
    PullRequest(9, S_alice, "closed", FALSE, S_thanks, 6, << >>, << >>)

\* the repositories a run may meet: the pull requests, newest first
SampleRepos ==
    { << >>, << SamplePR7 >>, << SamplePR8, SamplePR7 >>, << SamplePR9, SamplePR8 >> }

(***************************************************************************)
(* internal/analyzer: the client and the fetches                           *)
(***************************************************************************)
\* createGitHubClient: what it writes to standard output
createGitHubClient(tok, envTok) ==
    IF (IF tok = "" THEN envTok ELSE tok) = ""
    THEN << [kind |-> "warning", what |-> "No GitHub token provided"],
            [kind |-> "warning", what |-> "Set GITHUB_TOKEN"] >>
    ELSE << >>

Call(op, arg) == [op |-> op, arg |-> arg]

\* a call whose error the caller discards, with whether it failed
CallOutcome(op, arg, failed) == [op |-> op, arg |-> arg, failed |-> failed]

\* the loop of FetchPullRequests over the pull requests the API returned
RECURSIVE PRInfosOf(_, _)
PRInfosOf(list, limit) ==
    IF list = << >> \/ limit <= 0 THEN << >>
    ELSE << [Number |-> Head(list).number, State |-> Head(list).state,
             Author |-> Head(list).login,
             Merged |-> Head(list).state = "closed" /\ Head(list).mergedAt] >>
         \o PRInfosOf(Tail(list), limit - 1)

\* the messages FetchPRDiscussions takes from a list of comments
RECURSIVE CommentMessages(_)
CommentMessages(cs) ==
    IF cs = << >> THEN << >>
    ELSE (IF Head(cs).body # EmptyStr
          THEN << [Author |-> Head(cs).login, Body |-> Head(cs).body,
                   CreatedAt |-> Head(cs).createdAt, IsPRBody |-> FALSE] >>
          ELSE << >>)
         \o CommentMessages(Tail(cs))

\* the message FetchPRDiscussions takes from the pull request's own body
BodyMessage(pr, detail) ==
    IF detail.body # EmptyStr
    THEN << [Author |-> pr.Author, Body |-> detail.body,
             CreatedAt |-> detail.createdAt, IsPRBody |-> TRUE] >>
    ELSE << >>

\* the loop of FetchPRDiscussions giving up the pull request's messages when the
\* fetch of its detail fails
DiscussionOf_DetailFailureDropsAll(pr, detail, failDetail, failComments, failReviews) ==
    [PRNumber |-> pr.Number, Author |-> pr.Author, State |-> pr.State, Merged |-> pr.Merged,
     Messages |-> IF failDetail THEN << >>
                  ELSE BodyMessage(pr, detail)
                       \o (IF failComments THEN << >> ELSE CommentMessages(detail.comments))
                       \o (IF failReviews THEN << >> ELSE CommentMessages(detail.reviewComments))]

\* the loop of FetchPRDiscussions taking the review comments before the issue
\* comments
DiscussionOf_ReviewsFirst(pr, detail, failDetail, failComments, failReviews) ==
    [PRNumber |-> pr.Number, Author |-> pr.Author, State |-> pr.State, Merged |-> pr.Merged,
     Messages |-> (IF failDetail THEN << >> ELSE BodyMessage(pr, detail))
                  \o (IF failReviews THEN << >> ELSE CommentMessages(detail.reviewComments))
                  \o (IF failComments THEN << >> ELSE CommentMessages(detail.comments))]

\* one iteration of the loop of FetchPRDiscussions: a failed fetch yields nil
DiscussionOf(pr, detail, failDetail, failComments, failReviews) ==
    [PRNumber |-> pr.Number, Author |-> pr.Author, State |-> pr.State, Merged |-> pr.Merged,
     Messages |-> (IF failDetail THEN << >> ELSE BodyMessage(pr, detail))
                  \o (IF failComments THEN << >> ELSE CommentMessages(detail.comments))
                  \o (IF failReviews THEN << >> ELSE CommentMessages(detail.reviewComments))]

(***************************************************************************)
(* cmd: the flags and their limits                                         *)
(***************************************************************************)
HealthLimitMax == 20
HealthLimitDefault == 5
DiscussionsLimitMax == 20
DiscussionsLimitDefault == 5
PRLimitMax == 100
PRsNoNumber == -1
PRsDefault == 5

\* the limit of the health command without the upper bound
ClampHealthLimit_NoUpper(l) == IF l < 1 THEN HealthLimitDefault ELSE l

\* runHealthAnalysis: the limit handed to FetchPRDiscussions
ClampHealthLimit(l) == IF l < 1 \/ l > HealthLimitMax THEN HealthLimitDefault ELSE l

\* runPRDiscussions: the limit handed to FetchPRDiscussions
ClampDiscussionsLimit(l) ==
    IF l < 1 \/ l > DiscussionsLimitMax THEN DiscussionsLimitDefault ELSE l

\* the limit of the info command with a fallback to the default below 1
determinePRLimit_Clamped(changed, n) ==
    IF ~changed THEN 0 ELSE IF n < 1 THEN PRsDefault ELSE n

determinePRLimit(changed, n) ==
    IF ~changed THEN 0 ELSE IF n = PRsNoNumber THEN PRsDefault ELSE n

\* the check of the limit against a maximum ten times too large
PRLimitTooHigh_Lenient(prLimit) == prLimit > 10 * PRLimitMax

\* runAnalyze: the check of the limit
PRLimitTooHigh(prLimit) == prLimit > PRLimitMax

\* runHealthAnalysis without the check of the credentials
GeminiKeyMissing_Never(e) == FALSE

\* runHealthAnalysis: the check of the credentials
GeminiKeyMissing(e) == e.GEMINI_API_KEY = ""

(***************************************************************************)
(* The runs                                                                *)
(***************************************************************************)
Fatal(msg) == pc' = "fatal" /\ fatal' = msg

\* info: runAnalyze up to and including analyzer.New
runAnalyzeStart ==
    /\ pc = "start" /\ command = "info"
    /\ parsed' = ParseRepoURL(args)
    /\ IF parsed'.err
       THEN Fatal("Error parsing repository URL") /\ UNCHANGED <<client, stdout>>
       ELSE IF PRLimitTooHigh(determinePRLimit(prsChanged, prs))
       THEN Fatal("PR limit must be 100 or less") /\ UNCHANGED <<client, stdout>>
       ELSE /\ client' = TRUE
            /\ stdout' = stdout \o createGitHubClient(token, env.GITHUB_TOKEN)
            /\ pc' = "fetchRepo"
            /\ UNCHANGED fatal
    /\ UNCHANGED <<flagVars, limitVars, remote, repoInfo, netLog, prInfos, discussions,
                   healthVars, classifyVars>>

\* info: a.FetchRepoInfo and what follows its result
FetchRepoInfoStep ==
    /\ pc = "fetchRepo"
    /\ netLog' = Append(netLog, Call("Repositories.Get", 0))
    /\ \E ok \in BOOLEAN :
          IF ok
          THEN /\ repoInfo' = [FullName |-> parsed.owner \o S_slash \o parsed.repo]
               /\ pc' = IF determinePRLimit(prsChanged, prs) > 0 THEN "fetchPRs" ELSE "display"
               /\ UNCHANGED fatal
          ELSE Fatal("Error fetching repository info") /\ UNCHANGED repoInfo
    /\ UNCHANGED <<flagVars, limitVars, remote, parsed, client, stdout, prInfos, discussions,
                   healthVars, classifyVars>>

\* info: a.FetchPullRequests and what follows its result
FetchPullRequestsStep ==
    /\ pc = "fetchPRs"
    /\ netLog' = Append(netLog, Call("PullRequests.List", determinePRLimit(prsChanged, prs)))
    /\ \E ok \in BOOLEAN :
          IF ok
          THEN /\ prInfos' = PRInfosOf(remote, determinePRLimit(prsChanged, prs))
               /\ pc' = "display"
               /\ UNCHANGED fatal
          ELSE Fatal("Error fetching pull requests") /\ UNCHANGED prInfos
    /\ UNCHANGED <<flagVars, limitVars, remote, repoInfo, parsed, client, stdout, discussions,
                   healthVars, classifyVars>>

\* output.Manager.Display
Display(fmt, info, list) ==
    IF fmt = "json" THEN [err |-> FALSE, out |-> << [kind |-> "json", repo |-> info, prs |-> list] >>]
    ELSE IF fmt = "table" THEN [err |-> FALSE, out |-> << [kind |-> "table", repo |-> info, prs |-> list] >>]
    ELSE [err |-> TRUE, out |-> << >>]

\* info: outputManager.Display and the end of runAnalyze
DisplayStep ==
    /\ pc = "display"
    /\ LET d == Display(format, repoInfo, prInfos)
       IN  /\ stdout' = stdout \o d.out
           /\ IF d.err THEN Fatal("Error displaying output")
              ELSE pc' = "done" /\ UNCHANGED fatal
    /\ UNCHANGED <<flagVars, limitVars, remote, repoInfo, parsed, client, netLog, prInfos,
                   discussions, healthVars, classifyVars>>

\* pr-thread: runPRDiscussions up to and including analyzer.New
runPRDiscussionsStart ==
    /\ pc = "start" /\ command = "pr-thread"
    /\ parsed' = ParseRepoURL(args)
    /\ IF parsed'.err
       THEN Fatal("Error parsing repository URL") /\ UNCHANGED <<client, stdout, discussionsLimit>>
       ELSE /\ discussionsLimit' = ClampDiscussionsLimit(discussionsLimit)
            /\ client' = TRUE
            /\ stdout' = stdout \o createGitHubClient(token, env.GITHUB_TOKEN)
            /\ pc' = "fetchList"
            /\ UNCHANGED fatal
    /\ UNCHANGED <<flagVars, healthLimit, remote, repoInfo, netLog, prInfos, discussions,
                   healthVars, classifyVars>>

\* health: runHealthAnalysis up to and including analyzer.New
runHealthAnalysisStart ==
    /\ pc = "start" /\ command = "health"
    /\ IF GeminiKeyMissing(env)
       THEN /\ Fatal("GEMINI_API_KEY environment variable is required")
            /\ UNCHANGED <<parsed, client, stdout, healthLimit>>
       ELSE /\ parsed' = ParseRepoURL(args)
            /\ IF parsed'.err
               THEN Fatal("Error parsing repository URL") /\ UNCHANGED <<client, stdout, healthLimit>>
               ELSE /\ healthLimit' = ClampHealthLimit(healthLimit)
                    /\ client' = TRUE
                    /\ stdout' = stdout \o createGitHubClient(token, env.GITHUB_TOKEN)
                    /\ pc' = "fetchList"
                    /\ UNCHANGED fatal
    /\ UNCHANGED <<flagVars, discussionsLimit, remote, repoInfo, netLog, prInfos, discussions,
                   healthVars, classifyVars>>

\* the limit argument of the run's call of FetchPRDiscussions
ThreadLimit == IF command = "health" THEN healthLimit ELSE discussionsLimit

\* FetchPRDiscussions: its call of FetchPullRequests
FetchPRListStep ==
    /\ pc = "fetchList"
    /\ netLog' = Append(netLog, Call("PullRequests.List", ThreadLimit))
    /\ \E ok \in BOOLEAN :
          IF ok
          THEN /\ prInfos' = PRInfosOf(remote, ThreadLimit)
               /\ pc' = "fetchDiscussion"
               /\ UNCHANGED fatal
          ELSE Fatal("Error fetching PR discussions") /\ UNCHANGED prInfos
    /\ UNCHANGED <<flagVars, limitVars, remote, repoInfo, parsed, client, stdout, discussions,
                   healthVars, classifyVars>>

\* FetchPRDiscussions: one iteration of its loop, each of the three fetches
\* succeeding or failing
FetchDiscussionStep ==
    /\ pc = "fetchDiscussion"
    /\ Len(discussions) < Len(prInfos)
    /\ LET k == Len(discussions) + 1
           n == prInfos[k].Number
       IN  \E failDetail \in BOOLEAN, failComments \in BOOLEAN, failReviews \in BOOLEAN :
              /\ netLog' = netLog \o << CallOutcome("PullRequests.Get", n, failDetail),
                                        CallOutcome("Issues.ListComments", n, failComments),
                                        CallOutcome("PullRequests.ListComments", n, failReviews) >>
              /\ discussions' = Append(discussions,
                     DiscussionOf(prInfos[k], remote[k], failDetail, failComments, failReviews))
    /\ UNCHANGED <<flagVars, limitVars, remote, repoInfo, pc, fatal, parsed, client, stdout,
                   prInfos, healthVars, classifyVars>>

\* what runPRDiscussions prints for one discussion
ThreadLines(d) ==
    << [kind |-> "thread", number |-> d.PRNumber,
        status |-> IF d.Merged THEN "merged" ELSE IF d.State = "closed" THEN "closed" ELSE "open"] >>
    \o [i \in 1..Len(d.Messages) |->
          [kind |-> "message", number |-> d.PRNumber, author |-> d.Messages[i].Author,
           createdAt |-> d.Messages[i].CreatedAt, pinned |-> d.Messages[i].IsPRBody,
           body |-> d.Messages[i].Body]]

RECURSIVE AllThreadLines(_)
AllThreadLines(ds) ==
    IF ds = << >> THEN << >> ELSE ThreadLines(Head(ds)) \o AllThreadLines(Tail(ds))

\* pr-thread: the printing loop of runPRDiscussions
PrintThreads ==
    /\ pc = "fetchDiscussion" /\ command = "pr-thread"
    /\ Len(discussions) = Len(prInfos)
    /\ stdout' = stdout \o AllThreadLines(discussions)
    /\ pc' = "done"
    /\ UNCHANGED <<flagVars, limitVars, remote, repoInfo, fatal, parsed, client, netLog,
                   prInfos, discussions, healthVars, classifyVars>>

\* health: the start of analyzePRHealth
HealthBegin ==
    /\ pc = "fetchDiscussion" /\ command = "health"
    /\ Len(discussions) = Len(prInfos)
    /\ report' = NewReport(Len(discussions))
    /\ totalScore' = 0
    /\ di' = NextMessage(discussions, 1, 1)[1]
    /\ mi' = NextMessage(discussions, 1, 1)[2]
    /\ pc' = "analyze"
    /\ UNCHANGED <<flagVars, limitVars, remote, repoInfo, fatal, parsed, client, netLog, stdout,
                   prInfos, discussions, geminiCalls, classifyVars>>

\* the responses of the classifier service
RespMembers ==
    { Members("positive", 9), Members("negative", 2), Members("happy", 9), Members("positive", 11) }
RespToks == {LBrace, RBrace, OtherText} \cup RespMembers
MaxRespLen == 3
GeminiResponses ==
    { [kind |-> k, text |-> << >>] : k \in {"clienterr", "callerr", "nocontent"} }
    \cup { [kind |-> "text", text |-> t] : t \in SeqsUpTo(RespToks, MaxRespLen) }
GeminiReplies == { HandleResponse(r) : r \in GeminiResponses }

\* analyzePRHealth: one iteration of the inner loop, at message mi of discussion di
AnalyzeMessage ==
    /\ pc = "analyze"
    /\ di <= Len(discussions)
    /\ LET msg == discussions[di].Messages[mi]
           next == NextMessage(discussions, di, mi + 1)
       IN  IF SkipMessage(msg)
           THEN /\ di' = next[1] /\ mi' = next[2]
                /\ UNCHANGED <<pc, report, totalScore, geminiCalls>>
           ELSE \E reply \in GeminiReplies :
                   LET r == analyzeSentiment(msg.Body, env.GEMINI_API_KEY, reply)
                       label == LabelFor(r.sentiment, r.score)
                   IN  /\ geminiCalls' = IF r.called THEN geminiCalls + 1 ELSE geminiCalls
                       /\ IF r.panic
                          THEN pc' = "panic" /\ UNCHANGED <<report, totalScore, di, mi>>
                          ELSE /\ report' = RecordMessage(report, msg.Body, label, r.score)
                               /\ totalScore' = totalScore + r.score
                               /\ di' = next[1] /\ mi' = next[2]
                               /\ UNCHANGED pc
    /\ UNCHANGED <<flagVars, limitVars, remote, repoInfo, fatal, parsed, client, netLog, stdout,
                   prInfos, discussions, classifyVars>>

\* analyzePRHealth: the statements after the loops
AnalyzeFinish ==
    /\ pc = "analyze"
    /\ di > Len(discussions)
    /\ report' = FinishReport(report, totalScore)
    /\ pc' = "report"
    /\ UNCHANGED <<flagVars, limitVars, remote, repoInfo, fatal, parsed, client, netLog, stdout,
                   prInfos, discussions, totalScore, di, mi, geminiCalls, classifyVars>>

\* health: displayHealthReport
DisplayReport ==
    /\ pc = "report"
    /\ stdout' = stdout \o displayHealthReport(report)
    /\ pc' = "done"
    /\ UNCHANGED <<flagVars, limitVars, remote, repoInfo, fatal, parsed, client, netLog,
                   prInfos, discussions, healthVars, classifyVars>>

(***************************************************************************)
(* Spec: a run of one of the three commands                                *)
(***************************************************************************)
NotParsed == [owner |-> EmptyStr, repo |-> EmptyStr, err |-> FALSE]
NoRepoInfo == [FullName |-> EmptyStr]
NoSentiment == Reply("", 0, FALSE)

Commands == {"info", "pr-thread", "health"}
RepoRefs == { <<"g", "o", "l", "a", "n", "g", "/", "g", "o">>,
              <<"h", "t", "t", "p", "s", ":", "/", "/", "g", "i", "t", "h", "u", "b", ".", "c", "o", "m", "/", "g", "o", "l", "a", "n", "g", "/", "g", "o">>,
              <<"g", "o", "l", "a", "n", "g">> }
Formats == {"table", "json", "xml"}
PrsFlags == {-2, -1, 0, 1, 100, 101, 150}
LimitFlags == {-1, 0, 1, 5, 20, 21}

\* the state of the run before its first step
IdleRun ==
    /\ pc = "start" /\ fatal = "none" /\ parsed = NotParsed /\ client = FALSE
    /\ netLog = << >> /\ stdout = << >> /\ prInfos = << >> /\ discussions = << >>
    /\ repoInfo = NoRepoInfo /\ report = NewReport(0) /\ totalScore = 0
    /\ di = 1 /\ mi = 1 /\ geminiCalls = 0 /\ text = EmptyStr /\ sentiment = NoSentiment

Init ==
    /\ command \in Commands
    /\ args \in RepoRefs
    /\ remote \in SampleRepos
    /\ token \in {"", "ghp_flag"}
    /\ env \in [GEMINI_API_KEY : IF command = "health" THEN {"", "key"} ELSE {""},
                GITHUB_TOKEN : IF command = "info" THEN {"", "ghp_env"} ELSE {""}]
    /\ format \in IF command = "info" THEN Formats ELSE {"table"}
    /\ prsChanged \in IF command = "info" THEN BOOLEAN ELSE {FALSE}
    /\ prs \in IF prsChanged THEN PrsFlags ELSE {PRsNoNumber}
    /\ limitArg \in IF command = "info" THEN {HealthLimitDefault} ELSE LimitFlags
    /\ healthLimit = (IF command = "health" THEN limitArg ELSE HealthLimitDefault)
    /\ discussionsLimit = (IF command = "pr-thread" THEN limitArg ELSE DiscussionsLimitDefault)
    /\ IdleRun

Next ==
    \/ runAnalyzeStart
    \/ FetchRepoInfoStep
    \/ FetchPullRequestsStep
    \/ DisplayStep
    \/ runPRDiscussionsStart
    \/ runHealthAnalysisStart
    \/ FetchPRListStep
    \/ FetchDiscussionStep
    \/ PrintThreads
    \/ HealthBegin
    \/ AnalyzeMessage
    \/ AnalyzeFinish
    \/ DisplayReport

Spec == Init /\ [][Next]_vars

(***************************************************************************)
(* SpecAgg: analyzePRHealth and displayHealthReport on any discussions     *)
(***************************************************************************)
MaxMessages == 3
MaxDiscussions == 2

AggAuthors == {S_alice, S_dependabot, S_runner}
AggBodies == {EmptyStr, S_ok}
AggMessages ==
    { [Author |-> a, Body |-> b, CreatedAt |-> 1, IsPRBody |-> FALSE] : a \in AggAuthors, b \in AggBodies }

\* the messages flat cut into d discussions at the places cuts
CutInto(flat, d, cuts) ==
    [j \in 1..d |->
        [PRNumber |-> j, Author |-> S_alice, State |-> "open", Merged |-> FALSE,
         Messages |-> SubSeq(flat, (IF j = 1 THEN 0 ELSE cuts[j - 1]) + 1,
                             IF j = d THEN Len(flat) ELSE cuts[j])]]

\* up to MaxDiscussions discussions holding up to MaxMessages messages together
AggDiscussions ==
    { CutInto(flat, d, cuts) :
        <<flat, d, cuts>> \in
          { <<f, n, c>> \in SeqsUpTo(AggMessages, MaxMessages) \X (0..MaxDiscussions)
                            \X SeqsUpTo(0..MaxMessages, MaxDiscussions) :
              /\ Len(c) = (IF n = 0 THEN 0 ELSE n - 1)
              /\ n = 0 => f = << >>
              /\ \A j \in DOMAIN c : c[j] <= Len(f) /\ (j > 1 => c[j - 1] <= c[j]) } }

InitAgg ==
    /\ command = "health" /\ args = EmptyStr /\ remote = << >> /\ token = ""
    /\ env \in [GEMINI_API_KEY : {"", "key"}, GITHUB_TOKEN : {""}]
    /\ format = "table" /\ prsChanged = FALSE /\ prs = PRsNoNumber
    /\ limitArg = HealthLimitDefault
    /\ healthLimit = HealthLimitDefault /\ discussionsLimit = DiscussionsLimitDefault
    /\ fatal = "none" /\ parsed = NotParsed /\ client = FALSE
    /\ netLog = << >> /\ stdout = << >> /\ prInfos = << >> /\ repoInfo = NoRepoInfo
    /\ text = EmptyStr /\ sentiment = NoSentiment
    /\ discussions \in AggDiscussions
    /\ report = NewReport(Len(discussions))
    /\ totalScore = 0 /\ geminiCalls = 0
    /\ di = NextMessage(discussions, 1, 1)[1]
    /\ mi = NextMessage(discussions, 1, 1)[2]
    /\ pc = "analyze"

NextAgg == AnalyzeMessage \/ AnalyzeFinish \/ DisplayReport

SpecAgg == InitAgg /\ [][NextAgg]_vars

\* the variables a specification of a single function leaves at rest
IdleCommand ==
    /\ command = "none" /\ remote = << >> /\ token = ""
    /\ format = "table" /\ prsChanged = FALSE /\ prs = PRsNoNumber
    /\ limitArg = HealthLimitDefault
    /\ healthLimit = HealthLimitDefault /\ discussionsLimit = DiscussionsLimitDefault
    /\ fatal = "none" /\ client = FALSE /\ netLog = << >> /\ stdout = << >>
    /\ prInfos = << >> /\ discussions = << >> /\ repoInfo = NoRepoInfo
    /\ totalScore = 0 /\ di = 1 /\ mi = 1 /\ geminiCalls = 0

(***************************************************************************)
(* SpecDisplay: displayHealthReport on hand-built reports, whose counts    *)
(* need not add up                                                         *)
(***************************************************************************)
MaxCount == 4
AverageTenths == {0, 5, 6, 7, 10}
SampleAnalysis(label, score) == [Content |-> S_ok, Sentiment |-> label, Score |-> score]
SampleMessages ==
    { << >>,
      << SampleAnalysis("positive", 9), SampleAnalysis("negative", 2),
         SampleAnalysis("neutral", 5), SampleAnalysis("positive", 8) >> }

HandBuiltReports ==
    [PRCount : {1}, MessageCount : 0..MaxCount, PositiveScore : 0..MaxCount,
     NegativeScore : 0..MaxCount, NeutralScore : 0..MaxCount,
     AverageSentiment : { Ratio(t, 10) : t \in AverageTenths }, Messages : SampleMessages]

InitDisplay ==
    /\ IdleCommand
    /\ args = EmptyStr /\ env = [GEMINI_API_KEY |-> "", GITHUB_TOKEN |-> ""]
    /\ parsed = NotParsed /\ text = EmptyStr /\ sentiment = NoSentiment
    /\ report \in HandBuiltReports
    /\ pc = "report"

NextDisplay == DisplayReport

SpecDisplay == InitDisplay /\ [][NextDisplay]_vars

(***************************************************************************)
(* SpecClassify: analyzeSentiment on any text, with and without the key    *)
(***************************************************************************)
MaxTextToks == 3
TextToks == { S_fence, <<BQ>>, <<"a">>, S_space, <<"\n">>, S_http, <<"#">> }
Texts == { Concat(ts) : ts \in SeqsUpTo(TextToks, MaxTextToks) }

InitClassify ==
    /\ IdleCommand
    /\ args = EmptyStr /\ parsed = NotParsed /\ report = NewReport(0)
    /\ env \in [GEMINI_API_KEY : {"", "key"}, GITHUB_TOKEN : {""}]
    /\ text \in Texts
    /\ sentiment = NoSentiment
    /\ pc = "classify"

\* a call of analyzeSentiment
Classify ==
    /\ pc = "classify"
    /\ \E reply \in GeminiReplies :
          /\ sentiment' = analyzeSentiment(text, env.GEMINI_API_KEY, reply)
          /\ geminiCalls' = IF sentiment'.called THEN geminiCalls + 1 ELSE geminiCalls
          /\ pc' = IF sentiment'.panic THEN "panic" ELSE "classified"
    /\ UNCHANGED <<flagVars, limitVars, remote, repoInfo, fatal, parsed, client, netLog, stdout,
                   prInfos, discussions, report, totalScore, di, mi, text>>

NextClassify == Classify

SpecClassify == InitClassify /\ [][NextClassify]_vars

(***************************************************************************)
(* SpecParse: ParseRepoURL on any reference                                *)
(***************************************************************************)
MaxURLToks == 3
MaxNameToks == 2
URLToks == { S_slash, <<"a">>, <<"b">>, S_github, S_https, S_http }
NameToks == { <<"g", "o">>, S_github, <<"h", "t", "t", "p", "s", ":">>, <<".">> }

\* owner and repository names: not empty, no slash
Names == { Concat(ts) : ts \in SeqsUpTo(NameToks, MaxNameToks) } \ {EmptyStr}

\* the four ways of writing a repository
RefForms(o, r) ==
    << S_https \o S_githubSlash \o o \o S_slash \o r,
       S_http \o S_githubSlash \o o \o S_slash \o r,
       S_githubSlash \o o \o S_slash \o r,
       o \o S_slash \o r >>

ParseInputs ==
    { Concat(ts) : ts \in SeqsUpTo(URLToks, MaxURLToks) }
    \cup { RefForms(o, r)[k] : o \in Names, r \in Names, k \in 1..4 }

InitParse ==
    /\ IdleCommand
    /\ env = [GEMINI_API_KEY |-> "", GITHUB_TOKEN |-> ""]
    /\ report = NewReport(0) /\ text = EmptyStr /\ sentiment = NoSentiment
    /\ args \in ParseInputs
    /\ parsed = NotParsed
    /\ pc = "parse"

\* a call of ParseRepoURL
Parse ==
    /\ pc = "parse"
    /\ parsed' = ParseRepoURL(args)
    /\ pc' = "parsed"
    /\ UNCHANGED <<flagVars, limitVars, remote, repoInfo, fatal, client, netLog, stdout,
                   prInfos, discussions, healthVars, classifyVars>>

NextParse == Parse

SpecParse == InitParse /\ [][NextParse]_vars

(***************************************************************************)
(* The claims                                                              *)
(***************************************************************************)
IsVerdict(line) == line.kind = "verdict"
IsPercent(line) == line.kind = "percent"
IsNotice(line) == line.kind = "notice"

\* rules 2 to 6 of the ladder, each on its own
RuleHolds(k, rep) ==
    IF k = 2 THEN 10 * rep.NegativeScore > 5 * rep.MessageCount
    ELSE IF k = 3 THEN 10 * rep.PositiveScore > 7 * rep.MessageCount
    ELSE IF k = 4 THEN 10 * rep.AverageSentiment.num > 6 * rep.AverageSentiment.den
    ELSE IF k = 5 THEN 10 * rep.NeutralScore > 7 * rep.MessageCount
    ELSE TRUE

RuleVerdict ==
    [k \in 2..6 |-> IF k = 2 THEN "Needs attention" ELSE IF k = 3 THEN "Excellent health"
                    ELSE IF k = 4 THEN "Good health" ELSE IF k = 5 THEN "Neutral"
                    ELSE "Mixed sentiment"]

FirstRule(rep) == CHOOSE k \in 2..6 : RuleHolds(k, rep) /\ \A j \in 2..(k - 1) : ~RuleHolds(j, rep)

\* C1: for a report with at least one message, displayHealthReport prints exactly
\* one verdict, that of the lowest-numbered rule of the ladder that holds.
C1_VerdictLadder ==
    (pc = "done" /\ report.MessageCount >= 1) =>
        LET vs == SelectSeq(stdout, IsVerdict)
        IN  Len(vs) = 1 /\ vs[1].what = RuleVerdict[FirstRule(report)]

\* a report that satisfies rules 2, 3 and 4 at once has been displayed
C1_Witness ==
    /\ pc = "done" /\ report.MessageCount >= 1
    /\ RuleHolds(2, report) /\ RuleHolds(3, report) /\ RuleHolds(4, report)
    /\ \E i \in DOMAIN stdout : stdout[i] = [kind |-> "verdict", what |-> "Needs attention"]

\* C2 as stated: for a report without messages the percentages are printed as 0
\* and the verdict is rule 1's, "No messages to analyze".
C2_ZeroReportPrinted ==
    (pc = "done" /\ report.MessageCount = 0) =>
        /\ \A l \in {"Positive", "Neutral", "Negative"} :
              \E i \in DOMAIN stdout : stdout[i] = [kind |-> "percent", label |-> l, tenths |-> 0]
        /\ \E i \in DOMAIN stdout : stdout[i] = [kind |-> "verdict", what |-> "No messages to analyze"]

\* C2 amended: for a report without messages only the notice "No messages found to
\* analyze" is printed (no percentage, no verdict); the counts and the average of
\* the report are 0 and no average is ever a division by zero.
C2_ZeroReportNotice ==
    /\ report.AverageSentiment.den > 0
    /\ (pc = "done" /\ report.MessageCount = 0) =>
          /\ stdout = << [kind |-> "notice", what |-> "No messages found to analyze"] >>
          /\ report.PositiveScore = 0 /\ report.NeutralScore = 0 /\ report.NegativeScore = 0
          /\ report.AverageSentiment.num = 0

\* discussions whose every message was skipped have been reported
C2_Witness ==
    /\ pc = "done" /\ report.MessageCount = 0
    /\ Len(discussions) = 2 /\ Len(discussions[1].Messages) > 0 /\ Len(discussions[2].Messages) > 0

\* the messages of the discussions, in iteration order
RECURSIVE AllMessages(_)
AllMessages(ds) == IF ds = << >> THEN << >> ELSE Head(ds).Messages \o AllMessages(Tail(ds))

Counted(msg) == msg.Body # EmptyStr /\ ~isBotComment(msg.Author)

C4_FallbackNeverAborts ==
    /\ pc # "panic"
    /\ \A i \in DOMAIN report.Messages :
          /\ report.Messages[i].Sentiment \in ValidSentiments
          /\ report.Messages[i].Score \in 0..10

\* C5 as stated: a health run without the classifier key does not abort.
C5_MissingKeyRecovered ==
    (command = "health" /\ env.GEMINI_API_KEY = "") => fatal = "none"

\* C5 amended: a health run without the classifier key ends in a fatal error
\* before the reference is parsed, a client is made or anything is fetched; no
\* message is classified and no report is printed.
C5_MissingKeyFatal ==
    (command = "health" /\ env.GEMINI_API_KEY = "" /\ pc # "start") =>
        /\ pc = "fatal"
        /\ fatal = "GEMINI_API_KEY environment variable is required"
        /\ parsed = NotParsed /\ ~client /\ netLog = << >>
        /\ geminiCalls = 0 /\ stdout = << >> /\ report.Messages = << >>

\* a health run without the key has ended
C5_Witness ==
    /\ command = "health" /\ env.GEMINI_API_KEY = "" /\ pc = "fatal"
    /\ ~ParseRepoURL(args).err

\* C6: for a text that is empty or that the normalizer reduces to nothing, the
\* classification is (neutral, 0.5) and the classifier service is not called,
\* with or without the key.
C6_EmptyTextNoCall ==
    (pc # "classify" /\ (text = EmptyStr \/ cleanTextForAnalysis(text) = EmptyStr)) =>
        /\ pc = "classified"
        /\ sentiment.sentiment = "neutral" /\ sentiment.score = 5
        /\ ~sentiment.called /\ geminiCalls = 0

\* a fenced code block alone has been classified with the key present
C6_Witness ==
    /\ pc = "classified" /\ env.GEMINI_API_KEY # ""
    /\ text = S_fence \o <<"a">> \o S_fence
    /\ cleanTextForAnalysis(text) = EmptyStr

\* owner/repo with both parts present
IsOwnerRepo(s) ==
    LET parts == Split(s, "/")
    IN  Len(parts) = 2 /\ parts[1] # EmptyStr /\ parts[2] # EmptyStr

\* 'owner/repo', or a GitHub URL ending in it
WellFormedRef(url) ==
    \/ IsOwnerRepo(url)
    \/ \E p \in {S_https \o S_githubSlash, S_http \o S_githubSlash, S_githubSlash} :
          HasPrefix(url, p) /\ IsOwnerRepo(Drop(url, Len(p)))

\* C7 as stated: ParseRepoURL returns an error for every reference that is not
\* well formed, and an owner and a repository that are not empty otherwise.
C7_MalformedRejected ==
    pc = "parsed" =>
        /\ ~WellFormedRef(args) => parsed.err
        /\ ~parsed.err => (parsed.owner # EmptyStr /\ parsed.repo # EmptyStr)

\* C8 as stated: the four ways of writing owner and repo all parse to (owner, repo).
C8_FormsAgree ==
    pc = "parsed" =>
        \A o \in Names, r \in Names, k \in 1..4 :
            args = RefForms(o, r)[k] => parsed = ParseOK(o, r)

\* C8 amended: the four ways of writing owner and repo all parse to (owner, repo)
\* when the owner is not "github.com".
C8_FormsAgreeButGithub ==
    pc = "parsed" =>
        \A o \in Names \ {S_github}, r \in Names, k \in 1..4 :
            args = RefForms(o, r)[k] => parsed = ParseOK(o, r)

\* a short form whose repository name mentions github.com has been parsed
C8_Witness ==
    /\ pc = "parsed"
    /\ args = <<"g", "o">> \o S_slash \o <<"g", "o">> \o S_github
    /\ parsed = ParseOK(<<"g", "o">>, <<"g", "o">> \o S_github)

\* C9: an info run asked for more than 100 pull requests ends in a fatal error
\* with no client made, no fetch issued and nothing written.
C9_OverLimitRejected ==
    (command = "info" /\ prsChanged /\ prs > 100) =>
        /\ ~client /\ netLog = << >> /\ stdout = << >>
        /\ pc \in {"start", "fatal"}
        /\ (pc = "fatal" /\ ~ParseRepoURL(args).err) => fatal = "PR limit must be 100 or less"

\* an info run asked for 150 pull requests has been rejected
C9_Witness ==
    /\ command = "info" /\ prsChanged /\ prs = 150
    /\ pc = "fatal" /\ fatal = "PR limit must be 100 or less"

\* C10: every limit pr-thread and health hand to FetchPRDiscussions is in [1, 20]:
\* the requested one when it is in [1, 20], 5 otherwise, and a request outside the
\* range is no error.
C10_ThreadLimitClamped ==
    command \in {"pr-thread", "health"} =>
        /\ \A i \in DOMAIN netLog :
              netLog[i].op = "PullRequests.List" =>
                  /\ netLog[i].arg \in 1..20
                  /\ limitArg \in 1..20 => netLog[i].arg = limitArg
                  /\ limitArg \notin 1..20 => netLog[i].arg = 5
        /\ (pc # "start" /\ ~ParseRepoURL(args).err /\ env.GEMINI_API_KEY # "")
              => (netLog # << >> \/ pc = "fetchList")
        /\ (pc # "start" /\ ~ParseRepoURL(args).err /\ command = "pr-thread")
              => (netLog # << >> \/ pc = "fetchList")

\* a health run asked for 21 pull requests has fetched 5 and finished
C10_Witness ==
    /\ command = "health" /\ limitArg = 21 /\ pc = "done"
    /\ netLog[1] = Call("PullRequests.List", 5)

IsPRList(call) == call.op = "PullRequests.List"

\* C11 as stated: an info run given --prs below 1 that gets past the fetches has
\* requested the default 5 pull requests.
C11_BelowOneGetsDefault ==
    (command = "info" /\ prsChanged /\ prs < 1 /\ pc \in {"display", "done"}) =>
        \E i \in DOMAIN netLog : netLog[i] = Call("PullRequests.List", 5)

\* C11 amended: an info run never lists pull requests with a limit outside
\* [1, 100]; without --prs, and with --prs 0 or a negative number other than -1, it
\* lists none and the number is no error; with --prs -1 it lists the default 5.
C11_BelowOneNoFetch ==
    command = "info" =>
        /\ \A i \in DOMAIN netLog :
              IsPRList(netLog[i]) =>
                  /\ netLog[i].arg \in 1..100
                  /\ prsChanged /\ netLog[i].arg = (IF prs = -1 THEN 5 ELSE prs)
        /\ (~prsChanged \/ (prs < 1 /\ prs # -1)) =>
              /\ SelectSeq(netLog, IsPRList) = << >>
              /\ pc # "fetchPRs"
              /\ fatal \notin {"PR limit must be 100 or less", "Error fetching pull requests"}
        /\ (prsChanged /\ prs = -1) =>
              /\ fatal # "PR limit must be 100 or less"
              /\ pc \in {"display", "done"} => netLog[2] = Call("PullRequests.List", 5)

\* an info run given --prs 0 has displayed the repository without listing pull
\* requests
C11_Witness ==
    /\ command = "info" /\ prsChanged /\ prs = 0 /\ pc = "done"
    /\ netLog = << Call("Repositories.Get", 0) >>
    /\ Len(stdout) > 0

\* C12 as stated: an info run with a format other than table and json never ends
\* well, and when it ends in its fatal error nothing has been written to standard
\* output, with or without a token.
C12_UnknownFormatNoOutput ==
    (command = "info" /\ format \notin {"table", "json"}) =>
        /\ pc # "done"
        /\ fatal = "Error displaying output" => stdout = << >>

IsBodyMessage(m) == m.IsPRBody
IsCommentMessage(m) == ~m.IsPRBody
HasBody(c) == c.body # EmptyStr

\* the messages of the k-th listed pull request had no fetch failed
NoFailure(k) == DiscussionOf(prInfos[k], remote[k], FALSE, FALSE, FALSE).Messages

\* the messages of NoFailure(k) less those of the fetches that failed for it
WithoutFailed(k) ==
    LET full == NoFailure(k)
        rest == SelectSeq(full, IsCommentMessage)
        nc == Len(SelectSeq(remote[k].comments, HasBody))
    IN  (IF netLog[3 * k - 1].failed THEN << >> ELSE SelectSeq(full, IsBodyMessage))
        \o (IF netLog[3 * k].failed THEN << >> ELSE SubSeq(rest, 1, nc))
        \o (IF netLog[3 * k + 1].failed THEN << >> ELSE SubSeq(rest, nc + 1, Len(rest)))

\* C13: FetchPRDiscussions fails only when the list of pull requests cannot be
\* fetched; otherwise it returns one discussion per listed pull request, in list
\* order, whose messages are those of a run without failures less the messages of
\* the fetches that failed for that pull request.
C13_SecondaryFailuresRecovered ==
    command \in {"pr-thread", "health"} =>
        /\ fatal = "Error fetching PR discussions" =>
              (netLog = << Call("PullRequests.List", ThreadLimit) >> /\ discussions = << >>)
        /\ Len(netLog) > 1 => (fatal = "none" /\ Len(netLog) = 1 + 3 * Len(discussions))
        /\ Len(discussions) <= Len(prInfos)
        /\ pc \in {"analyze", "report", "panic", "done"} => Len(discussions) = Len(prInfos)
        /\ \A k \in DOMAIN discussions :
              /\ discussions[k].PRNumber = prInfos[k].Number
              /\ discussions[k].Messages = WithoutFailed(k)

\* pr-thread has printed two pull requests: for the first nothing failed, for the
\* second the fetch of the detail failed and its comments are there
C13_Witness ==
    /\ command = "pr-thread" /\ pc = "done" /\ Len(discussions) = 2
    /\ ~netLog[2].failed /\ ~netLog[3].failed /\ ~netLog[4].failed
    /\ netLog[5].failed /\ ~netLog[6].failed /\ ~netLog[7].failed
    /\ discussions[1].Messages = NoFailure(1)
    /\ discussions[2].Messages # << >>
    /\ Len(discussions[2].Messages) < Len(NoFailure(2))

(***************************************************************************)
(* SpecClean: cleanTextForAnalysis applied to a text and then to its result *)
(***************************************************************************)
MaxCleanToks == 3
CleanToks == { <<BQ>>, <<BQ, BQ>>, S_fence, <<"a">>, S_space, <<"-">>, S_http }
CleanTexts == { Concat(ts) : ts \in SeqsUpTo(CleanToks, MaxCleanToks) }

InitClean ==
    /\ IdleCommand
    /\ env = [GEMINI_API_KEY |-> "", GITHUB_TOKEN |-> ""]
    /\ parsed = NotParsed /\ report = NewReport(0) /\ sentiment = NoSentiment
    /\ args \in CleanTexts
    /\ text = args
    /\ pc = "clean"

\* a call of cleanTextForAnalysis on the text at hand
Clean ==
    /\ pc \in {"clean", "cleaned"}
    /\ text' = cleanTextForAnalysis(text)
    /\ pc' = IF pc = "clean" THEN "cleaned" ELSE "cleanedTwice"
    /\ UNCHANGED <<flagVars, limitVars, remote, repoInfo, fatal, parsed, client, netLog, stdout,
                   prInfos, discussions, healthVars, sentiment>>

NextClean == Clean

SpecClean == InitClean /\ [][NextClean]_vars

\* C14 as stated: cleaning the cleaned text gives the cleaned text again.
C14_Idempotent ==
    pc = "cleanedTwice" => text = cleanTextForAnalysis(args)

\* C15 as stated: the messages pr-thread prints for a pull request are in the
\* order of their creation times.
C15_Chronological ==
    command = "pr-thread" =>
        \A i \in DOMAIN stdout, j \in DOMAIN stdout :
            (/\ i < j /\ stdout[i].kind = "message" /\ stdout[j].kind = "message"
             /\ stdout[i].number = stdout[j].number)
                => stdout[i].createdAt <= stdout[j].createdAt

\* the comments with a body, as messages, in the order fetched
AsMessages(cs) ==
    LET kept == SelectSeq(cs, HasBody)
    IN  [i \in 1..Len(kept) |->
            [Author |-> kept[i].login, Body |-> kept[i].body,
             CreatedAt |-> kept[i].createdAt, IsPRBody |-> FALSE]]

RECURSIVE SumScores(_)
SumScores(msgs) == IF msgs = << >> THEN 0 ELSE Head(msgs).Score + SumScores(Tail(msgs))

\* the number of recorded messages whose label is in labels
CountLabels(msgs, labels) == Cardinality({ i \in DOMAIN msgs : msgs[i].Sentiment \in labels })

\* the sum of the three percentages as printed, in tenths of a percent
PrintedPercentSum ==
    LET ps == SelectSeq(stdout, IsPercent)
    IN  ps[1].tenths + ps[2].tenths + ps[3].tenths

\* the counts, the number of pull requests and the average of the returned report
ReportAddsUp ==
    pc \in {"report", "done"} =>
        /\ report.PositiveScore + report.NeutralScore + report.NegativeScore = report.MessageCount
        /\ report.MessageCount = Len(report.Messages)
        /\ report.PositiveScore = CountLabels(report.Messages, {"positive"})
        /\ report.NegativeScore = CountLabels(report.Messages, {"negative"})
        /\ report.NeutralScore =
              Len(report.Messages) - CountLabels(report.Messages, {"positive", "negative"})
        /\ report.PRCount = Len(discussions)
        /\ report.MessageCount > 0 =>
              report.AverageSentiment.num * 10 * report.MessageCount
                  = SumScores(report.Messages) * report.AverageSentiment.den

\* C17 as stated: the report adds up, and the three percentages displayed for a
\* report with messages sum to 100.
C17_ReportSums ==
    /\ ReportAddsUp
    /\ (pc = "done" /\ report.MessageCount > 0) => PrintedPercentSum = 1000

\* C17 amended: the report adds up; the three percentages displayed, each rounded
\* to one decimal, sum to 100 within 0.1, and to 100 exactly when each count times
\* 1000 is a multiple of the message count.
C17_ReportSumsRounded ==
    /\ ReportAddsUp
    /\ (pc = "done" /\ report.MessageCount > 0) =>
          /\ PrintedPercentSum \in 999..1001
          /\ (\A c \in {report.PositiveScore, report.NeutralScore, report.NegativeScore} :
                 (1000 * c) % report.MessageCount = 0) => PrintedPercentSum = 1000

\* two discussions, one of them without a counted message, with one positive, one
\* neutral and one negative message have been reported as 33.3% each
C17_Witness ==
    /\ pc = "done" /\ report.PRCount = 2 /\ report.MessageCount = 3
    /\ \E k \in 1..2 : discussions[k].Messages = << >>
    /\ report.PositiveScore = 1 /\ report.NeutralScore = 1 /\ report.NegativeScore = 1
    /\ PrintedPercentSum = 999

====
